---- MODULE Spec2Model ----
(***************************************************************************)
(* Model of csv_import_script.py: the Airdrop Lottery CSV importer.        *)
(* A run of main() reads a CSV file, validates the address column, splits  *)
(* the valid addresses into batches and hands each batch to the external   *)
(* `aptos move run` command, keeping success / failure counters.           *)
(*                                                                         *)
(* Strings are sequences of one-character strings, so that strip(),        *)
(* startswith(), slicing and int(s, 16) are computed character by          *)
(* character.                                                              *)
(***************************************************************************)
EXTENDS Integers, Sequences, FiniteSets, TLC

VARIABLES
    csv_exists,          \* the file named by --csv can be opened
    csv_rows,            \* the data rows of the file: the cell under the address column
    batch_size,          \* --batch-size (argparse type=int)
    dry_run,             \* --dry-run
    pc,                  \* position of the run
    exit_status,         \* "running", or how the process ended: "success" (0) / "failure" (non-zero)
    read_error,          \* exception raised inside read_csv ("none" if none)
    addresses,           \* import_participants: addresses
    batches,             \* import_participants: batches
    i,                   \* import_participants: loop index (1-based)
    successful_batches,
    failed_batches,
    total_processed,
    exec_log,            \* batch indices handed to subprocess.run, in order
    handled,             \* one record per batch whose loop body has finished
    last_exec,           \* outcome / return value / diagnostic of the last executor call
    pauses,              \* number of time.sleep(self.delay) calls
    warnings,            \* logger.warning calls made by read_csv
    errors,              \* logger.error calls made by import_participants
    summary,             \* severity of the final summary line, "none" before it
    calls,               \* how many times read_csv / create_batches were invoked
    raw,                 \* a string given to validate_address on its own
    verdict              \* what validate_address returned for it

vars == <<csv_exists, csv_rows, batch_size, dry_run, pc, exit_status, read_error,
          addresses, batches, i, successful_batches, failed_batches,
          total_processed, exec_log, handled, last_exec, pauses, warnings,
          errors, summary, calls, raw, verdict>>

(***************************************************************************)
(* Bounds                                                                  *)
(***************************************************************************)
MaxRows == 3         \* data rows in the CSV file
MaxBatchSize == 2    \* largest --batch-size tried
MaxAddrs == 4        \* longest address list given to the Batcher alone
MaxStrLen == 5       \* longest string given to the Validator alone

(***************************************************************************)
(* Characters and strings                                                  *)
(***************************************************************************)
Whitespace == {" ", "\t"}

HexDigits == {"0", "1", "2", "3", "4", "5", "6", "7", "8", "9",
              "a", "b", "c", "d", "e", "f",
              "A", "B", "C", "D", "E", "F"}

\* s[k:] for a 0-based k
Tail_from(s, k) == SubSeq(s, k + 1, Len(s))

RECURSIVE LStrip(_)
LStrip(s) ==
    IF s # <<>> /\ Head(s) \in Whitespace THEN LStrip(Tail(s)) ELSE s

RECURSIVE RStrip(_)
RStrip(s) ==
    IF s # <<>> /\ s[Len(s)] \in Whitespace
    THEN RStrip(SubSeq(s, 1, Len(s) - 1))
    ELSE s

\* str.strip()
Strip(s) == RStrip(LStrip(s))

\* str.startswith
StartsWith(s, p) == Len(s) >= Len(p) /\ SubSeq(s, 1, Len(p)) = p

\* The digit part of an integer literal: digits with single underscores
\* between them, at least one digit, no leading or trailing underscore.
RECURSIVE DigitsOk(_, _)
DigitsOk(s, prev) ==
    IF s = <<>> THEN prev \in HexDigits
    ELSE IF Head(s) \in HexDigits THEN DigitsOk(Tail(s), Head(s))
    ELSE IF Head(s) = "_" THEN prev \in HexDigits /\ DigitsOk(Tail(s), "_")
    ELSE FALSE

\* int(s, 16) does not raise ValueError: surrounding whitespace is skipped,
\* then an optional sign, an optional 0x / 0X prefix (one underscore may
\* follow it), then the digits.
IntBase16Parses(s) ==
    LET t == Strip(s)
        u == IF t # <<>> /\ Head(t) \in {"+", "-"} THEN Tail(t) ELSE t
        p == IF Len(u) >= 2 /\ u[1] = "0" /\ u[2] \in {"x", "X"}
             THEN Tail_from(u, 2) ELSE u
        q == IF Len(u) >= 2 /\ u[1] = "0" /\ u[2] \in {"x", "X"}
                /\ p # <<>> /\ Head(p) = "_"
             THEN Tail(p) ELSE p
    IN  DigitsOk(q, "")

validate_address(address) ==
    IF ~StartsWith(address, <<"0", "x">>) THEN FALSE
    ELSE LET hex_part == Tail_from(address, 2)
         IN  IF hex_part = <<>> THEN FALSE
             ELSE IntBase16Parses(hex_part)

(***************************************************************************)
(* The CSV file                                                            *)
(* A data row is represented by what csv.DictReader gives for the address  *)
(* column: a text, None (the row is shorter than the header, restval), or  *)
(* an error raised while the row is read (decoding error, csv.Error).      *)
(***************************************************************************)
TextCell(t) == [kind |-> "text", text |-> t]
NoneCell == [kind |-> "none", text |-> <<>>]
BadCell == [kind |-> "error", text |-> <<>>]

Cells == { TextCell(<<"0", "x", "A", "B">>),
           TextCell(<<" ", "0", "x", "1", " ">>),
           TextCell(<<>>),
           TextCell(<<"n", "o", "t", "H", "e", "x">>),
           NoneCell,
           BadCell }

RECURSIVE SeqsUpTo(_, _)
SeqsUpTo(S, n) ==
    IF n = 0 THEN { <<>> }
    ELSE LET shorter == SeqsUpTo(S, n - 1)
         IN  shorter \cup { Append(q, x) : q \in shorter, x \in S }

\* the cell is used as it is, without .strip()
RECURSIVE read_rows_unstripped(_, _, _)
read_rows_unstripped(rows, k, acc) ==
    IF k > Len(rows) THEN [exc |-> "none", addresses |-> acc.addresses,
                           warnings |-> acc.warnings]
    ELSE IF rows[k].kind # "text"
    THEN [exc |-> "Exception", addresses |-> <<>>, warnings |-> acc.warnings]
    ELSE LET address == rows[k].text
         IN  IF address # <<>> /\ validate_address(Strip(address))
             THEN read_rows_unstripped(rows, k + 1,
                            [acc EXCEPT !.addresses = Append(@, address)])
             ELSE read_rows_unstripped(rows, k + 1,
                            [acc EXCEPT !.warnings = @ + 1])

\* The body of the for loop of read_csv from row k on; acc holds the
\* addresses list and the number of warnings logged so far.
RECURSIVE read_rows(_, _, _)
read_rows(rows, k, acc) ==
    IF k > Len(rows) THEN [exc |-> "none", addresses |-> acc.addresses,
                           warnings |-> acc.warnings]
    ELSE IF rows[k].kind # "text"
    THEN \* the reader raises, or None.strip() raises AttributeError
         [exc |-> "Exception", addresses |-> <<>>, warnings |-> acc.warnings]
    ELSE LET address == Strip(rows[k].text)
         IN  IF address # <<>> /\ validate_address(address)
             THEN read_rows(rows, k + 1,
                            [acc EXCEPT !.addresses = Append(@, address)])
             ELSE read_rows(rows, k + 1,
                            [acc EXCEPT !.warnings = @ + 1])

\* a missing file taken for an empty one
read_csv_missing_is_empty(exists, rows) ==
    IF ~exists
    THEN [exc |-> "none", addresses |-> <<>>, warnings |-> 0]
    ELSE read_rows(rows, 1, [addresses |-> <<>>, warnings |-> 0])

read_csv(exists, rows) ==
    IF ~exists
    THEN [exc |-> "FileNotFoundError", addresses |-> <<>>, warnings |-> 0]
    ELSE read_rows(rows, 1, [addresses |-> <<>>, warnings |-> 0])

(***************************************************************************)
(* Batcher                                                                 *)
(***************************************************************************)
Min(a, b) == IF a <= b THEN a ELSE b

\* list(range(start, stop, step)) for step # 0
RECURSIVE PyRange(_, _, _)
PyRange(start, stop, step) ==
    IF step > 0
    THEN IF start >= stop THEN <<>>
         ELSE <<start>> \o PyRange(start + step, stop, step)
    ELSE IF start <= stop THEN <<>>
         ELSE <<start>> \o PyRange(start + step, stop, step)

\* s[lo:hi] for 0 <= lo
Slice(s, lo, hi) == SubSeq(s, lo + 1, Min(hi, Len(s)))

\* range() raises ValueError when its step is zero
create_batches_raises(size) == size = 0

create_batches_short(addrs, size) ==
    LET starts == PyRange(0, Len(addrs), size)
    IN  [k \in 1..Len(starts) |-> Slice(addrs, starts[k], starts[k] + size - 1)]

\* range(0, len(addresses) + 1, ...)
create_batches_trailing(addrs, size) ==
    LET starts == PyRange(0, Len(addrs) + 1, size)
    IN  [k \in 1..Len(starts) |-> Slice(addrs, starts[k], starts[k] + size)]

create_batches(addrs, size) ==
    LET starts == PyRange(0, Len(addrs), size)
    IN  [k \in 1..Len(starts) |-> Slice(addrs, starts[k], starts[k] + size)]

RECURSIVE Concat(_)
Concat(bs) == IF bs = <<>> THEN <<>> ELSE Head(bs) \o Concat(Tail(bs))

(***************************************************************************)
(* Submission Executor                                                     *)
(* An outcome of subprocess.run: it returns a CompletedProcess with a      *)
(* returncode, or raises TimeoutExpired, or raises another exception       *)
(* (the aptos binary is missing, the OS refuses to start it, ...).         *)
(***************************************************************************)
ReturnCodes == {0, 1}

Outcomes == { [exc |-> "none", returncode |-> r] : r \in ReturnCodes }
            \cup { [exc |-> "TimeoutExpired", returncode |-> 0],
                   [exc |-> "OSError", returncode |-> 0] }

\* without the two except clauses
execute_add_participant_unguarded(outcome) ==
    IF outcome.exc = "none"
    THEN IF outcome.returncode = 0
         THEN [returned |-> TRUE, raised |-> FALSE, diag |-> "success"]
         ELSE [returned |-> FALSE, raised |-> FALSE, diag |-> "failed"]
    ELSE [returned |-> FALSE, raised |-> TRUE, diag |-> "none"]

execute_add_participant(outcome) ==
    IF outcome.exc = "none"
    THEN IF outcome.returncode = 0
         THEN [returned |-> TRUE, raised |-> FALSE, diag |-> "success"]
         ELSE [returned |-> FALSE, raised |-> FALSE, diag |-> "failed"]
    ELSE IF outcome.exc = "TimeoutExpired"
    THEN [returned |-> FALSE, raised |-> FALSE, diag |-> "timeout"]
    ELSE [returned |-> FALSE, raised |-> FALSE, diag |-> "unexpected"]

(***************************************************************************)
(* Import Orchestrator: the decisions of import_participants               *)
(***************************************************************************)
\* `if not addresses: return`
no_addresses_never(addrs) == FALSE

no_addresses(addrs) == addrs = <<>>

\* The counters after one batch of n addresses
tally_counts_failed(c, success, n) ==
    IF success
    THEN [c EXCEPT !.successful_batches = @ + 1, !.total_processed = @ + n]
    ELSE [c EXCEPT !.failed_batches = @ + 1, !.total_processed = @ + n]

tally(c, success, n) ==
    IF success
    THEN [c EXCEPT !.successful_batches = @ + 1, !.total_processed = @ + n]
    ELSE [c EXCEPT !.failed_batches = @ + 1]

\* Whether the loop body calls time.sleep(self.delay) after batch idx of n:
\* the `if i < len(batches)` test sits inside the non-dry-run branch.
sleeps_after_every_mode(dry, idx, n) == idx < n

sleeps_after_last_too(dry, idx, n) == ~dry

sleeps_after(dry, idx, n) == ~dry /\ idx < n

\* The index the for loop takes after batch idx of n
next_index_break(idx, n, success) == IF success THEN idx + 1 ELSE n + 1

next_index_retry(idx, n, success) == IF success THEN idx + 1 ELSE idx

next_index_skip(idx, n, success) == idx + 2

next_index(idx, n, success) == idx + 1

\* Whether the dry-run branch is taken for a batch
skips_executor(dry) == dry

\* The severity of the last summary line
summary_level_several(failed) == IF failed > 1 THEN "warning" ELSE "info"

summary_level(failed) == IF failed > 0 THEN "warning" ELSE "info"

counters == [successful_batches |-> successful_batches,
             failed_batches |-> failed_batches,
             total_processed |-> total_processed]

Idle == [exc |-> "idle", returncode |-> 0, returned |-> FALSE,
         raised |-> FALSE, diag |-> "none"]

(***************************************************************************)
(* Initial states: the command line.  The file is whatever read_csv finds  *)
(* when it opens it; csv_exists and csv_rows record what it found.         *)
(***************************************************************************)
BatchSizes == (-1) .. MaxBatchSize

Files == { [exists |-> FALSE, rows |-> <<>>] }
         \cup { [exists |-> TRUE, rows |-> rows] : rows \in SeqsUpTo(Cells, MaxRows) }

Fresh ==
    /\ exit_status = "running"
    /\ read_error = "none"
    /\ addresses = <<>>
    /\ batches = <<>>
    /\ i = 0
    /\ successful_batches = 0
    /\ failed_batches = 0
    /\ total_processed = 0
    /\ exec_log = <<>>
    /\ handled = <<>>
    /\ last_exec = Idle
    /\ pauses = 0
    /\ warnings = 0
    /\ errors = 0
    /\ summary = "none"
    /\ calls = [read_csv |-> 0, create_batches |-> 0]
    /\ raw = <<>>
    /\ verdict = FALSE

Init ==
    /\ csv_exists = FALSE
    /\ csv_rows = <<>>
    /\ batch_size \in BatchSizes
    /\ dry_run \in BOOLEAN
    /\ pc = "Start"
    /\ Fresh

(***************************************************************************)
(* Actions                                                                 *)
(***************************************************************************)
unchanged_args == UNCHANGED <<batch_size, dry_run, raw, verdict>>

unchanged_config ==
    UNCHANGED <<csv_exists, csv_rows, batch_size, dry_run, raw, verdict>>

\* main() builds the importer; import_participants logs the configuration
Start ==
    /\ pc = "Start"
    /\ pc' = "Reading"
    /\ unchanged_config
    /\ UNCHANGED <<exit_status, read_error, addresses, batches, i,
                   successful_batches, failed_batches, total_processed,
                   exec_log, handled, last_exec, pauses, warnings, errors,
                   summary, calls>>

\* read_csv raises: the error is logged and sys.exit(1) ends the process
ReadCsvFatal ==
    /\ pc = "Reading"
    /\ \E f \in Files :
         LET r == read_csv(f.exists, f.rows)
         IN  /\ csv_exists' = f.exists
             /\ csv_rows' = f.rows
             /\ r.exc # "none"
             /\ read_error' = r.exc
             /\ warnings' = r.warnings
    /\ calls' = [calls EXCEPT !.read_csv = @ + 1]
    /\ pc' = "Exited"
    /\ exit_status' = "failure"
    /\ unchanged_args
    /\ UNCHANGED <<addresses, batches, i, successful_batches, failed_batches,
                   total_processed, exec_log, handled, last_exec, pauses,
                   errors, summary>>

\* read_csv returns no address: an error is logged and the run returns
ReadCsvEmpty ==
    /\ pc = "Reading"
    /\ \E f \in Files :
         LET r == read_csv(f.exists, f.rows)
         IN  /\ csv_exists' = f.exists
             /\ csv_rows' = f.rows
             /\ r.exc = "none"
             /\ no_addresses(r.addresses)
             /\ addresses' = r.addresses
             /\ warnings' = r.warnings
    /\ calls' = [calls EXCEPT !.read_csv = @ + 1]
    /\ errors' = errors + 1
    /\ pc' = "Done"
    /\ exit_status' = "success"
    /\ unchanged_args
    /\ UNCHANGED <<read_error, batches, i, successful_batches, failed_batches,
                   total_processed, exec_log, handled, last_exec, pauses,
                   summary>>

\* read_csv returns addresses
ReadCsvOk ==
    /\ pc = "Reading"
    /\ \E f \in Files :
         LET r == read_csv(f.exists, f.rows)
         IN  /\ csv_exists' = f.exists
             /\ csv_rows' = f.rows
             /\ r.exc = "none"
             /\ ~no_addresses(r.addresses)
             /\ addresses' = r.addresses
             /\ warnings' = r.warnings
    /\ calls' = [calls EXCEPT !.read_csv = @ + 1]
    /\ pc' = "Batching"
    /\ unchanged_args
    /\ UNCHANGED <<exit_status, read_error, batches, i, successful_batches,
                   failed_batches, total_processed, exec_log, handled,
                   last_exec, pauses, errors, summary>>

\* create_batches returns; the counters are set to 0 and the loop starts
CreateBatches ==
    /\ pc = "Batching"
    /\ ~create_batches_raises(batch_size)
    /\ batches' = create_batches(addresses, batch_size)
    /\ calls' = [calls EXCEPT !.create_batches = @ + 1]
    /\ i' = 1
    /\ pc' = "Submitting"
    /\ unchanged_config
    /\ UNCHANGED <<exit_status, read_error, addresses, successful_batches,
                   failed_batches, total_processed, exec_log, handled,
                   last_exec, pauses, warnings, errors, summary>>

\* range() raises ValueError inside create_batches: nothing catches it, the
\* interpreter prints the traceback and exits with status 1
CreateBatchesRaises ==
    /\ pc = "Batching"
    /\ create_batches_raises(batch_size)
    /\ calls' = [calls EXCEPT !.create_batches = @ + 1]
    /\ pc' = "Crashed"
    /\ exit_status' = "failure"
    /\ unchanged_config
    /\ UNCHANGED <<read_error, addresses, batches, i, successful_batches,
                   failed_batches, total_processed, exec_log, handled,
                   last_exec, pauses, warnings, errors, summary>>

\* The end of the loop body for batch i, common to both branches
EndOfBody(success) ==
    LET n == Len(batches)
        c == tally(counters, success, Len(batches[i]))
    IN  /\ successful_batches' = c.successful_batches
        /\ failed_batches' = c.failed_batches
        /\ total_processed' = c.total_processed
        /\ handled' = Append(handled, [index |-> i, size |-> Len(batches[i]),
                                       ok |-> success])
        /\ IF sleeps_after(dry_run, i, n)
           THEN /\ pc' = "Sleeping"
                /\ pauses' = pauses + 1
                /\ i' = i
           ELSE /\ pc' = "Submitting"
                /\ pauses' = pauses
                /\ i' = next_index(i, n, success)

\* One iteration in dry-run mode
DryRunBatch ==
    /\ pc = "Submitting"
    /\ i <= Len(batches)
    /\ skips_executor(dry_run)
    /\ EndOfBody(TRUE)
    /\ unchanged_config
    /\ UNCHANGED <<exit_status, read_error, addresses, batches, exec_log,
                   last_exec, warnings, errors, summary, calls>>

\* execute_add_participant starts the external command and blocks
InvokeExecutor ==
    /\ pc = "Submitting"
    /\ i <= Len(batches)
    /\ ~skips_executor(dry_run)
    /\ exec_log' = Append(exec_log, i)
    /\ pc' = "Executing"
    /\ unchanged_config
    /\ UNCHANGED <<exit_status, read_error, addresses, batches, i,
                   successful_batches, failed_batches, total_processed,
                   handled, last_exec, pauses, warnings, errors, summary,
                   calls>>

\* subprocess.run ends with some outcome and execute_add_participant
\* returns; the rest of the loop body runs.  (An exception that left
\* execute_add_participant would be caught by nothing.)
ExecutorReturns ==
    /\ pc = "Executing"
    /\ \E outcome \in Outcomes :
         LET r == execute_add_participant(outcome)
         IN  /\ last_exec' = [exc |-> outcome.exc,
                              returncode |-> outcome.returncode,
                              returned |-> r.returned, raised |-> r.raised,
                              diag |-> r.diag]
             /\ IF r.raised
                THEN /\ pc' = "Crashed"
                     /\ exit_status' = "failure"
                     /\ UNCHANGED <<i, successful_batches, failed_batches,
                                    total_processed, handled, pauses, errors>>
                ELSE /\ errors' = IF r.returned THEN errors ELSE errors + 1
                     /\ EndOfBody(r.returned)
                     /\ UNCHANGED exit_status
    /\ unchanged_config
    /\ UNCHANGED <<read_error, addresses, batches, exec_log, warnings,
                   summary, calls>>

\* time.sleep(self.delay) returns
Wake ==
    /\ pc = "Sleeping"
    /\ pc' = "Submitting"
    /\ i' = next_index(i, Len(batches), handled[Len(handled)].ok)
    /\ unchanged_config
    /\ UNCHANGED <<exit_status, read_error, addresses, batches,
                   successful_batches, failed_batches, total_processed,
                   exec_log, handled, last_exec, pauses, warnings, errors,
                   summary, calls>>

\* The for loop is exhausted
LoopExit ==
    /\ pc = "Submitting"
    /\ i > Len(batches)
    /\ pc' = "Summarizing"
    /\ unchanged_config
    /\ UNCHANGED <<exit_status, read_error, addresses, batches, i,
                   successful_batches, failed_batches, total_processed,
                   exec_log, handled, last_exec, pauses, warnings, errors,
                   summary, calls>>

\* The summary is logged; import_participants and main return
Summarize ==
    /\ pc = "Summarizing"
    /\ summary' = summary_level(failed_batches)
    /\ pc' = "Done"
    /\ exit_status' = "success"
    /\ unchanged_config
    /\ UNCHANGED <<read_error, addresses, batches, i, successful_batches,
                   failed_batches, total_processed, exec_log, handled,
                   last_exec, pauses, warnings, errors, calls>>

Next ==
    \/ Start
    \/ ReadCsvFatal
    \/ ReadCsvEmpty
    \/ ReadCsvOk
    \/ CreateBatches
    \/ CreateBatchesRaises
    \/ DryRunBatch
    \/ InvokeExecutor
    \/ ExecutorReturns
    \/ Wake
    \/ LoopExit
    \/ Summarize

Spec == Init /\ [][Next]_vars

\* Every blocking call returns and the interpreter keeps running
FairSpec == Spec /\ WF_vars(Next)

(***************************************************************************)
(* The Batcher on its own: create_batches applied to any address list,     *)
(* the empty one included, with a positive batch size.                     *)
(***************************************************************************)
AddressPool == { <<"0", "x", "A", "B">>, <<"0", "x", "1">> }

BatcherInit ==
    /\ csv_exists = TRUE
    /\ csv_rows = <<>>
    /\ dry_run = TRUE
    /\ batch_size \in 1 .. (MaxBatchSize + 1)
    /\ pc = "BatcherInput"
    /\ exit_status = "running"
    /\ read_error = "none"
    /\ addresses \in SeqsUpTo(AddressPool, MaxAddrs)
    /\ batches = <<>>
    /\ i = 0
    /\ successful_batches = 0
    /\ failed_batches = 0
    /\ total_processed = 0
    /\ exec_log = <<>>
    /\ handled = <<>>
    /\ last_exec = Idle
    /\ pauses = 0
    /\ warnings = 0
    /\ errors = 0
    /\ summary = "none"
    /\ calls = [read_csv |-> 0, create_batches |-> 0]
    /\ raw = <<>>
    /\ verdict = FALSE

BatcherApply ==
    /\ pc = "BatcherInput"
    /\ batches' = create_batches(addresses, batch_size)
    /\ calls' = [calls EXCEPT !.create_batches = @ + 1]
    /\ pc' = "BatcherOutput"
    /\ unchanged_config
    /\ UNCHANGED <<exit_status, read_error, addresses, i, successful_batches,
                   failed_batches, total_processed, exec_log, handled,
                   last_exec, pauses, warnings, errors, summary>>

BatcherNext == BatcherApply

BatcherSpec == BatcherInit /\ [][BatcherNext]_vars

(***************************************************************************)
(* The Validator on its own: validate_address applied to any short string  *)
(* over a few characters: a digit, the x, a hex letter, a letter that is   *)
(* not hex, an underscore, a sign and a blank.                             *)
(***************************************************************************)
Alphabet == {"0", "x", "A", "g", "_", "+", " "}

ValidatorInit ==
    /\ csv_exists = FALSE
    /\ csv_rows = <<>>
    /\ dry_run = TRUE
    /\ batch_size = 1
    /\ pc = "ValidatorInput"
    /\ exit_status = "running"
    /\ read_error = "none"
    /\ addresses = <<>>
    /\ batches = <<>>
    /\ i = 0
    /\ successful_batches = 0
    /\ failed_batches = 0
    /\ total_processed = 0
    /\ exec_log = <<>>
    /\ handled = <<>>
    /\ last_exec = Idle
    /\ pauses = 0
    /\ warnings = 0
    /\ errors = 0
    /\ summary = "none"
    /\ calls = [read_csv |-> 0, create_batches |-> 0]
    /\ raw \in SeqsUpTo(Alphabet, MaxStrLen)
    /\ verdict = FALSE

ValidatorApply ==
    /\ pc = "ValidatorInput"
    /\ verdict' = validate_address(raw)
    /\ pc' = "ValidatorOutput"
    /\ UNCHANGED <<csv_exists, csv_rows, batch_size, dry_run, exit_status,
                   read_error, addresses, batches, i, successful_batches,
                   failed_batches, total_processed, exec_log, handled,
                   last_exec, pauses, warnings, errors, summary, calls, raw>>

ValidatorNext == ValidatorApply

ValidatorSpec == ValidatorInit /\ [][ValidatorNext]_vars

(***************************************************************************)
(* Properties                                                              *)
(***************************************************************************)
Ascending(n) == [k \in 1 .. n |-> k]

RECURSIVE SizeOfSucceeded(_)
SizeOfSucceeded(j) ==
    IF j = 0 THEN 0
    ELSE SizeOfSucceeded(j - 1) + (IF handled[j].ok THEN Len(batches[j]) ELSE 0)

\* C2 (outcome accounting): after j batches have been handled, succeeded +
\* failed = j, the succeeded count is the number of batches that succeeded,
\* and the processed count is the total size of exactly those batches; at
\* Summarizing succeeded + failed is the number of batches.
C2_OutcomeAccounting ==
    LET j == Len(handled)
    IN  /\ successful_batches + failed_batches = j
        /\ successful_batches = Cardinality({k \in 1 .. j : handled[k].ok})
        /\ total_processed = SizeOfSucceeded(j)
        /\ \A k \in 1 .. j : handled[k].index = k
        /\ pc = "Submitting" => j = i - 1
        /\ pc = "Summarizing" =>
               successful_batches + failed_batches = Len(batches)

\* A run with both a succeeded and a failed batch reaches the summary.
C2_Witness ==
    /\ pc = "Summarizing"
    /\ successful_batches >= 1
    /\ failed_batches >= 1
    /\ total_processed < Len(addresses)

\* C3 (Batcher round trip): for every address list and positive batch size,
\* the batches concatenated in order give back the list; the empty list gives
\* no batch.
C3_RoundTrip ==
    pc = "BatcherOutput" =>
        /\ Concat(batches) = addresses
        /\ addresses = <<>> => batches = <<>>

\* A list with a repeated address split into several batches, the last one
\* shorter than the batch size.
C3_Witness ==
    /\ pc = "BatcherOutput"
    /\ Len(batches) >= 2
    /\ addresses[1] = addresses[2]
    /\ Len(batches[Len(batches)]) < batch_size

\* C4 (dry run), as claimed: in a run with the dry-run flag set the Executor
\* is never invoked, every batch is counted as succeeded, and the run reaches
\* Summarizing with no failed batch and with the processed-address count
\* equal to the number of valid addresses found.
C4_DryRunClaim ==
    dry_run =>
        /\ exec_log = <<>>
        /\ \A k \in 1 .. Len(handled) : handled[k].ok
        /\ pc = "Summarizing" =>
               /\ failed_batches = 0
               /\ successful_batches = Len(batches)
               /\ total_processed = Len(addresses)

\* The batches submitted so far, concatenated in submission order
Submitted == Concat([k \in 1 .. Len(exec_log) |-> batches[exec_log[k]]])

\* C5 (single sequential submission, no retry): in a non-dry-run run the
\* batches are handed to the external command in ascending index order, each
\* at most once and, once the loop is over, exactly once; at most one
\* invocation is in flight and the next starts only after the previous one
\* has returned; the addresses submitted so far are a prefix of the address
\* list, so none is submitted twice.
C5_SingleSequentialSubmission ==
    ~dry_run =>
        /\ exec_log = Ascending(Len(exec_log))
        /\ Len(exec_log) <= Len(batches)
        /\ Len(exec_log) = Len(handled) + (IF pc = "Executing" THEN 1 ELSE 0)
        /\ Submitted = SubSeq(addresses, 1, Len(Submitted))
        /\ pc = "Summarizing" => Len(exec_log) = Len(batches)

\* The first of several batches failed and the run has reached the summary.
C5_Witness ==
    /\ pc = "Summarizing"
    /\ ~dry_run
    /\ Len(batches) >= 2
    /\ ~handled[1].ok
    /\ Len(exec_log) = Len(batches)

\* C6 (pacing in dry run), as claimed: a dry-run run over k >= 2 batches
\* pauses after every batch except the last, k - 1 pauses in total.
C6_DryRunPacingClaim ==
    (dry_run /\ pc = "Summarizing" /\ Len(batches) >= 2) =>
        pauses = Len(batches) - 1

\* C6 as amended: a dry-run run never pauses; the k - 1 pauses, one after
\* every batch except the last, occur only in a non-dry-run run.
C6_NoPacingInDryRun ==
    /\ dry_run => (pauses = 0 /\ pc # "Sleeping")
    /\ (~dry_run /\ pc = "Summarizing" /\ Len(batches) >= 1) =>
           pauses = Len(batches) - 1

\* A dry-run run over at least two batches has reached the summary.
C6_Witness ==
    /\ dry_run
    /\ pc = "Summarizing"
    /\ Len(batches) >= 2
    /\ Len(handled) = Len(batches)

Terminated == pc \in {"Done", "Exited", "Crashed"}

\* C7 (exit status), as claimed: the process ends with a failure status if
\* and only if the input source could not be found or read; every other run
\* ends with a success status.
C7_ExitStatusClaim ==
    /\ exit_status = "failure" <=> read_error # "none"
    /\ (Terminated /\ read_error = "none") => exit_status = "success"

\* C8 (batch-size precondition), as claimed: create_batches is never reached
\* with a batch size <= 0.
C8_BatchSizeRejectedClaim ==
    calls.create_batches > 0 => batch_size > 0

\* C9 (empty result): when read_csv returns no valid address the run logs one
\* error and is Done at once: no create_batches call, no Executor invocation,
\* no pause, no summary, and the process ends with a success status.
C9_EmptyResultTermination ==
    (calls.read_csv > 0 /\ read_error = "none" /\ addresses = <<>>) =>
        /\ pc = "Done"
        /\ errors = 1
        /\ calls.create_batches = 0
        /\ batches = <<>>
        /\ exec_log = <<>>
        /\ pauses = 0
        /\ summary = "none"
        /\ exit_status = "success"

\* A file whose rows are all empty or malformed has been read.
C9_Witness ==
    /\ pc = "Done"
    /\ calls.read_csv = 1
    /\ read_error = "none"
    /\ addresses = <<>>
    /\ warnings >= 2

\* C10 (Executor outcome classification): whatever subprocess.run does,
\* execute_add_participant returns and does not raise; it returns true
\* exactly when the process exited with status 0; a timeout gets a
\* diagnostic of its own, different from the one of a non-zero exit.
C10_OutcomeClassification ==
    last_exec.exc # "idle" =>
        /\ ~last_exec.raised
        /\ pc # "Crashed"
        /\ last_exec.returned <=>
               (last_exec.exc = "none" /\ last_exec.returncode = 0)
        /\ last_exec.diag = "timeout" <=> last_exec.exc = "TimeoutExpired"
        /\ (last_exec.exc = "none" /\ last_exec.returncode # 0) =>
               last_exec.diag = "failed"
        /\ handled[Len(handled)].ok = last_exec.returned

\* The external command timed out and the orchestrator counted a failure.
C10_Witness ==
    /\ last_exec.exc = "TimeoutExpired"
    /\ ~last_exec.returned
    /\ failed_batches >= 1
    /\ pc \in {"Submitting", "Sleeping"}

\* The file cannot be read: it is missing, or reading some row raises
Unreadable == ~csv_exists \/ \E k \in 1 .. Len(csv_rows) : csv_rows[k].kind = "error"

\* C11 (fatal read error, no partial processing): when the source is missing
\* or a read failure occurs, the process ends with a failure status in the
\* Reading phase: no address is kept, no batch is formed, the Executor is
\* never invoked and no summary is emitted, however many valid rows came
\* before the failure.
C11_FatalReadError ==
    (calls.read_csv > 0 /\ Unreadable) =>
        /\ pc = "Exited"
        /\ exit_status = "failure"
        /\ read_error # "none"
        /\ addresses = <<>>
        /\ batches = <<>>
        /\ calls.create_batches = 0
        /\ exec_log = <<>>
        /\ handled = <<>>
        /\ summary = "none"

\* Two valid rows were read before the row on which reading failed.
C11_Witness ==
    /\ pc = "Exited"
    /\ Len(csv_rows) = 3
    /\ csv_rows[1] = TextCell(<<"0", "x", "A", "B">>)
    /\ csv_rows[2] = TextCell(<<"0", "x", "A", "B">>)
    /\ csv_rows[3].kind = "error"

\* C12 (batch shape): for a non-empty list of N addresses and a positive
\* batch size B, every batch is non-empty and has at most B addresses, every
\* batch but the last has exactly B, and there are ceil(N / B) batches.
C12_BatchShape ==
    (pc = "BatcherOutput" /\ addresses # <<>>) =>
        LET N == Len(addresses)
            B == batch_size
            n == Len(batches)
        IN  /\ n = (N + B - 1) \div B
            /\ \A k \in 1 .. n : Len(batches[k]) >= 1 /\ Len(batches[k]) <= B
            /\ \A k \in 1 .. (n - 1) : Len(batches[k]) = B

\* Four addresses in batches of three: sizes 3 and 1.
C12_Witness ==
    /\ pc = "BatcherOutput"
    /\ Len(addresses) = 4
    /\ batch_size = 3
    /\ Len(batches) = 2
    /\ Len(batches[1]) = 3
    /\ Len(batches[2]) = 1

\* 0x followed by one or more hexadecimal digits and nothing else
StrictAddress(s) ==
    /\ Len(s) >= 3
    /\ s[1] = "0"
    /\ s[2] = "x"
    /\ \A k \in 3 .. Len(s) : s[k] \in HexDigits

\* C13 (Address Validator), as claimed: validate_address(s) is true exactly
\* when s is 0x followed by a non-empty run of hexadecimal digits; a sign, an
\* underscore, whitespace or a second 0x prefix in the remainder makes it
\* false.
C13_ValidatorClaim ==
    pc = "ValidatorOutput" => (verdict <=> StrictAddress(raw))

\* What the claim expects of a row: its trimmed value is kept when it is
\* non-empty and the Validator accepts it
Trimmed(rows) == [k \in 1 .. Len(rows) |-> Strip(rows[k].text)]

Keeps(value) == value # <<>> /\ validate_address(value)

C15_RecordDefectsClaim ==
    (calls.read_csv > 0 /\ ~Unreadable) =>
        /\ read_error = "none"
        /\ pc # "Exited"
        /\ warnings = Len(csv_rows) - Len(addresses)

\* C16 (pacing of a non-dry-run run): one pause separates the end of the
\* invocation for batch i from the start of the invocation for batch i + 1,
\* whether batch i succeeded or failed, and nothing is paused after the last
\* batch: batch i is invoked after i - 1 pauses and the summary comes after
\* k - 1 pauses.
C16_NonDryRunPacing ==
    (~dry_run /\ Len(batches) >= 1) =>
        /\ pc = "Executing" => (pauses = i - 1 /\ Len(handled) = i - 1)
        /\ pc = "Sleeping" =>
               (i < Len(batches) /\ pauses = i /\ Len(handled) = i)
        /\ pc = "Submitting" => pauses = Len(handled) - (IF i > Len(batches) THEN 1 ELSE 0)
        /\ pc \in {"Summarizing", "Done"} => pauses = Len(batches) - 1

\* Three batches, a failed one among them, two pauses, then the summary.
C16_Witness ==
    /\ ~dry_run
    /\ pc = "Summarizing"
    /\ Len(batches) = 3
    /\ ~handled[1].ok
    /\ handled[2].ok
    /\ pauses = 2

\* The phase of the run a position belongs to
PhaseOf(p) == IF p \in {"Submitting", "Executing", "Sleeping"}
              THEN "Submitting" ELSE p

\* The steps from one phase to the next; a run may also be cut short by the
\* fatal exit of read_csv or by an exception in create_batches.
PhaseSteps == { <<"Start", "Reading">>, <<"Reading", "Batching">>,
                <<"Reading", "Done">>, <<"Batching", "Submitting">>,
                <<"Submitting", "Submitting">>,
                <<"Submitting", "Summarizing">>, <<"Summarizing", "Done">>,
                <<"Reading", "Exited">>, <<"Batching", "Crashed">> }

\* C17 (phase ordering): a run goes through Start, Reading, Batching,
\* Submitting, Summarizing, Done in this order, or from Reading straight to
\* Done when no valid address was found; read_csv and create_batches are
\* never invoked twice and both have returned before the first Executor
\* invocation; the summary is emitted once, after every batch was handled.
C17_PhaseOrdering ==
    /\ [](/\ calls.read_csv <= 1
          /\ calls.create_batches <= 1
          /\ PhaseOf(pc) \in {"Submitting", "Summarizing"} =>
                 (calls.read_csv = 1 /\ calls.create_batches = 1)
          /\ exec_log # <<>> =>
                 (calls.read_csv = 1 /\ calls.create_batches = 1)
          /\ pc = "Summarizing" => Len(handled) = Len(batches)
          /\ summary # "none" => (pc = "Done" /\ Len(handled) = Len(batches))
          /\ pc = "Done" => (summary = "none" <=> addresses = <<>>))
    /\ [][/\ <<PhaseOf(pc), PhaseOf(pc')>> \in PhaseSteps
          /\ summary' # summary => (summary = "none" /\ pc = "Summarizing")
         ]_vars

\* A run over several batches has emitted its summary and is Done.
C17_Witness ==
    /\ pc = "Done"
    /\ summary # "none"
    /\ Len(batches) >= 2
    /\ Len(handled) = Len(batches)
    /\ calls = [read_csv |-> 1, create_batches |-> 1]

\* C18 (summary severity): once the summary is emitted, its last line is at
\* warning level exactly when the failed-batch count is greater than 0 and at
\* success (info) level otherwise; a run that went through the loop does
\* emit it.
C18_SummarySeverity ==
    /\ summary # "none" =>
           /\ summary = "warning" <=> failed_batches > 0
           /\ summary = "info" <=> failed_batches = 0
    /\ (pc = "Done" /\ calls.create_batches > 0) => summary # "none"

\* One batch failed, another succeeded, and the summary is a warning.
C18_Witness ==
    /\ pc = "Done"
    /\ summary = "warning"
    /\ failed_batches = 1
    /\ successful_batches >= 1

\* C19 (a success summary means everything was processed), as claimed: in
\* every run that reaches Summarizing, for every accepted configuration, the
\* processed count is at most the number of valid addresses, equal to it
\* exactly when no batch failed, so the success-level summary is only
\* emitted when every valid address was processed.
C19_SuccessMeansAllProcessedClaim ==
    (pc = "Summarizing" \/ summary # "none") =>
        /\ total_processed <= Len(addresses)
        /\ total_processed = Len(addresses) <=> failed_batches = 0
        /\ summary = "info" => total_processed = Len(addresses)

\* C20 (termination), as claimed: every run eventually ends, in Done or by
\* the fatal read-error exit; the batch index never decreases, and each
\* batch handled has a larger index than every batch handled before it.
C20_TerminationClaim ==
    /\ <>(pc \in {"Done", "Exited"})
    /\ [][/\ i' >= i
          /\ Len(handled') > Len(handled) =>
                 \A k \in 1 .. Len(handled) :
                     handled[k].index < handled'[Len(handled')].index
         ]_vars

====
